---- MODULE Spec2Model ----
(***************************************************************************)
(* Model of lib/hereya-claude-agent-stack.ts: the constructor of           *)
(* HereyaClaudeAgentStack, which reads its configuration from the process  *)
(* environment and declares two buckets, two queues, one container-image   *)
(* function with its grants and trigger, a consumer policy document and    *)
(* seven outputs.                                                          *)
(*                                                                         *)
(* Strings are sequences of one-character strings, so that toLowerCase,    *)
(* split, join and parseInt are computed character by character.           *)
(* The constructor runs top to bottom; one action stands for each of the   *)
(* source's sections (INPUT CONFIGURATION, S3 BUCKETS, SQS QUEUES, LAMBDA  *)
(* FUNCTION, CONSUMER IAM POLICY, OUTPUTS), and pc is its position.        *)
(***************************************************************************)
EXTENDS Integers, Sequences, FiniteSets, TLC

VARIABLES env, stackName, pc, error, config, resources, grants,
          consumerPolicy, outputs

vars == <<env, stackName, pc, error, config, resources, grants,
          consumerPolicy, outputs>>

----------------------------------------------------------------------------
(* Bounds of the explored inputs.                                          *)

\* longest value of the timeout environment variable that is explored
MaxTimeoutLen == 2
\* longest value of the memorySize environment variable that is explored
MaxMemoryLen == 1
\* longest image reference that is explored when every reference is tried
MaxUriLen == 6

----------------------------------------------------------------------------
(* JavaScript values and string functions.                                 *)

\* The value of process.env.X when X is not set. It is a one-element tuple
\* holding a multi-character string, so it differs from every string.
Undefined == <<"undefined">>

\* JavaScript truthiness of a value read from process.env: undefined and
\* the empty string are falsy, every other string is truthy.
Truthy(v) == v # Undefined /\ v # <<>>

\* a || b on a value read from process.env
OrElse(v, d) == IF Truthy(v) THEN v ELSE d

Uppers == <<"A","B","C","D","E","F","G","H","I","J","K","L","M",
            "N","O","P","Q","R","S","T","U","V","W","X","Y","Z">>
Lowers == <<"a","b","c","d","e","f","g","h","i","j","k","l","m",
            "n","o","p","q","r","s","t","u","v","w","x","y","z">>

IsUpper(c) == \E i \in 1..Len(Uppers) : Uppers[i] = c

LowerChar(c) ==
  IF IsUpper(c) THEN Lowers[CHOOSE i \in 1..Len(Uppers) : Uppers[i] = c] ELSE c

\* String.prototype.toLowerCase
toLowerCase(s) == [i \in 1..Len(s) |-> LowerChar(s[i])]

\* String.prototype.split with a one-character separator
RECURSIVE split(_, _)
split(s, sep) ==
  IF \A i \in 1..Len(s) : s[i] # sep
  THEN <<s>>
  ELSE LET i == CHOOSE j \in 1..Len(s) :
                  s[j] = sep /\ \A k \in 1..(j-1) : s[k] # sep
       IN  <<SubSeq(s, 1, i-1)>> \o split(SubSeq(s, i+1, Len(s)), sep)

\* Array.prototype.join
RECURSIVE join(_, _)
join(parts, sep) ==
  IF Len(parts) = 0 THEN <<>>
  ELSE IF Len(parts) = 1 THEN parts[1]
  ELSE parts[1] \o sep \o join(Tail(parts), sep)

\* Array.prototype.slice(1)
slice1(parts) == IF Len(parts) = 0 THEN <<>> ELSE Tail(parts)

\* JavaScript numbers as far as the constructor produces them: an integer or NaN.
NaN == [nan |-> TRUE, n |-> 0]
Num(k) == [nan |-> FALSE, n |-> k]

\* a * k on a JavaScript number
Times(a, k) == IF a.nan THEN NaN ELSE Num(a.n * k)

Digits == <<"0","1","2","3","4","5","6","7","8","9">>
IsDigit(c) == \E d \in 1..Len(Digits) : Digits[d] = c
DigitVal(c) == (CHOOSE d \in 1..Len(Digits) : Digits[d] = c) - 1

\* the longest prefix of s made of decimal digits
RECURSIVE DigitPrefix(_)
DigitPrefix(s) ==
  IF Len(s) = 0 \/ ~IsDigit(s[1]) THEN <<>>
  ELSE <<s[1]>> \o DigitPrefix(Tail(s))

RECURSIVE DigitsValue(_)
DigitsValue(d) ==
  IF Len(d) = 0 THEN 0
  ELSE 10 * DigitsValue(SubSeq(d, 1, Len(d) - 1)) + DigitVal(d[Len(d)])

RECURSIVE TrimLeft(_)
TrimLeft(s) == IF Len(s) > 0 /\ s[1] = " " THEN TrimLeft(Tail(s)) ELSE s

\* parseInt(s, 10): leading white space is skipped, one sign is read, then
\* the longest run of decimal digits; NaN when that run is empty.
parseInt(s) ==
  LET t    == TrimLeft(s)
      neg  == Len(t) > 0 /\ t[1] = "-"
      body == IF Len(t) > 0 /\ t[1] \in {"-", "+"} THEN Tail(t) ELSE t
      d    == DigitPrefix(body)
  IN  IF Len(d) = 0 THEN NaN
      ELSE Num(IF neg THEN 0 - DigitsValue(d) ELSE DigitsValue(d))

----------------------------------------------------------------------------
(* The inputs: the process environment and the stack's id.                 *)

\* all strings over alphabet of length at most n
StringsUpTo(alphabet, n) == UNION { [1..k -> alphabet] : k \in 0..n }

NumberChars == {"0", "3", "-"}

TimeoutValues == StringsUpTo(NumberChars, MaxTimeoutLen) \cup {Undefined}
MemoryValues  == StringsUpTo(NumberChars, MaxMemoryLen) \cup {Undefined}

PrefixValues == { Undefined, <<>>, <<"m","y">>, <<"M","y">> }

ImageUriValues ==
  { Undefined, <<>>,
    <<"r","/","a",":","t">>,      \* registry/repository:tag
    <<"r","/","a">>,              \* registry/repository
    <<"a",":","t">> }             \* no registry part

AutoDeleteValues ==
  { Undefined, <<"t","r","u","e">>, <<"T","R","U","E">>,
    <<"f","a","l","s","e">> }

\* anthropicApiKey, which the package documentation lists as an input; the
\* constructor never reads it
AnthropicApiKeyValues == { Undefined, <<"s","k">> }

StackNames == { <<"T","s">>, <<"s","2">> }

EmptyMap == [x \in {} |-> x]

Init ==
  /\ \E p \in PrefixValues, i \in ImageUriValues, m \in MemoryValues,
        t \in TimeoutValues, a \in AutoDeleteValues, k \in AnthropicApiKeyValues :
       env = [namePrefix |-> p, imageUri |-> i, memorySize |-> m,
              timeout |-> t, autoDeleteObjects |-> a, anthropicApiKey |-> k]
  /\ stackName \in StackNames
  /\ pc = "config"
  /\ error = "none"
  /\ config = EmptyMap
  /\ resources = EmptyMap
  /\ grants = {}
  /\ consumerPolicy = <<>>
  /\ outputs = EmptyMap

----------------------------------------------------------------------------
(* Values the constructor passes to aws-cdk-lib.                           *)

agent == <<"a","g","e","n","t">>
latest == <<"l","a","t","e","s","t">>
true == <<"t","r","u","e">>
dash == <<"-">>
input == <<"i","n","p","u","t">>
output == <<"o","u","t","p","u","t">>
DefaultMemorySize == <<"1","0","2","4">>
DefaultTimeout == <<"9","0","0">>

\* the factor between the function timeout and the input queue's visibility timeout
VisibilityFactor == 6
\* the output queue's visibility timeout, in seconds
OutputVisibilitySeconds == 30
\* both queues' retention period, in days
RetentionDays == 14
\* the batch size of the queue trigger
BatchSize == 1

\* s3.BlockPublicAccess.BLOCK_ALL
BLOCK_ALL == [blockPublicAcls |-> TRUE, blockPublicPolicy |-> TRUE,
              ignorePublicAcls |-> TRUE, restrictPublicBuckets |-> TRUE]

\* An attribute of a declared construct (inputBucket.bucketName, queue.queueUrl,
\* fn.functionName, this.region ...): a reference that the deployment resolves,
\* followed by literal text (as in `${inputBucket.bucketArn}/*`).
Attr(construct, attr) == [construct |-> construct, attr |-> attr, suffix |-> <<>>]
AttrThen(construct, attr, text) == [construct |-> construct, attr |-> attr, suffix |-> text]

\* Duration.seconds(amount) of aws-cdk-lib refuses a negative amount (NaN is
\* not negative and passes).
DurationAccepts(amount) == amount.nan \/ amount.n >= 0

\* a variant of ImageUriMissing that tests only for an unset variable
ImageUriMissing_UnsetOnly(v) == v = Undefined

\* a variant of ImageUriMissing that also refuses a value without '/'
ImageUriMissing_OrNoSlash(v) ==
  \/ v = Undefined
  \/ v = <<>>
  \/ \A i \in 1..Len(v) : v[i] # "/"

\* if (!imageUri)
ImageUriMissing(v) == ~Truthy(v)

\* a variant of FunctionName that leaves out toLowerCase
FunctionName_NoLowerCase(prefix, stack) == prefix \o <<"-">> \o stack

\* `${prefix}-input-${this.stackName}`.toLowerCase() and its siblings
RoleName(prefix, role, stack) == toLowerCase(prefix \o dash \o role \o dash \o stack)
FunctionName(prefix, stack) == toLowerCase(prefix \o dash \o stack)

\* RemovalPolicy chosen for both buckets
RemovalPolicyOf(autoDeleteObjects) == IF autoDeleteObjects THEN "DESTROY" ELSE "RETAIN"

\* a variant of AutoDeleteFlag that takes every non-empty value for true
AutoDeleteFlag_Truthy(v) == Truthy(v)

\* process.env.autoDeleteObjects === 'true'
AutoDeleteFlag(v) == v = true

\* a variant of NumberOr that applies the default to the parsed number:
\* parseInt(process.env.X) || parseInt(dflt)
NumberOr_DefaultAfterParse(v, dflt) ==
  LET r == IF v = Undefined THEN NaN ELSE parseInt(v)
  IN  IF r.nan \/ r.n = 0 THEN parseInt(dflt) ELSE r

\* parseInt(process.env.X || dflt, 10)
NumberOr(v, dflt) == parseInt(OrElse(v, dflt))

\* a variant of RepoAndTag that keeps only the path segment after the registry:
\* uriParts[1]
RepoAndTag_SecondSegmentOnly(imageUri) ==
  LET uriParts == split(imageUri, "/")
  IN  IF Len(uriParts) >= 2 THEN uriParts[2] ELSE <<>>

\* [repoName, imageTag = 'latest'] = imageUri.split('/').slice(1).join('/').split(':')
RepoAndTag(imageUri) == join(slice1(split(imageUri, "/")), <<"/">>)
RepoName(imageUri) == split(RepoAndTag(imageUri), ":")[1]
ImageTag(imageUri) ==
  LET parts == split(RepoAndTag(imageUri), ":")
  IN  IF Len(parts) >= 2 THEN parts[2] ELSE latest

----------------------------------------------------------------------------
(* The constructor, section by section.                                    *)

\* INPUT CONFIGURATION with a usable imageUri
ReadConfig ==
  /\ pc = "config"
  /\ ~ImageUriMissing(env.imageUri)
  /\ config' = [prefix            |-> OrElse(env.namePrefix, agent),
                imageUri          |-> env.imageUri,
                memorySize        |-> NumberOr(env.memorySize, DefaultMemorySize),
                timeout           |-> NumberOr(env.timeout, DefaultTimeout),
                autoDeleteObjects |-> AutoDeleteFlag(env.autoDeleteObjects),
                repoName          |-> RepoName(env.imageUri),
                imageTag          |-> ImageTag(env.imageUri)]
  /\ pc' = "buckets"
  /\ UNCHANGED <<env, stackName, error, resources, grants, consumerPolicy, outputs>>

\* INPUT CONFIGURATION without imageUri: the constructor throws
MissingImageUri ==
  /\ pc = "config"
  /\ ImageUriMissing(env.imageUri)
  /\ error' = "imageUri environment variable is required"
  /\ pc' = "failed"
  /\ UNCHANGED <<env, stackName, config, resources, grants, consumerPolicy, outputs>>

\* a variant of Bucket that turns versioning off with auto-deletion
Bucket_UnversionedWhenAutoDelete(name, autoDeleteObjects) ==
  [type              |-> "AWS::S3::Bucket",
   bucketName        |-> name,
   versioned         |-> ~autoDeleteObjects,
   removalPolicy     |-> IF autoDeleteObjects THEN "DESTROY" ELSE "RETAIN",
   autoDeleteObjects |-> autoDeleteObjects,
   blockPublicAccess |-> BLOCK_ALL,
   encryption        |-> "S3_MANAGED"]

Bucket(name, autoDeleteObjects) ==
  [type              |-> "AWS::S3::Bucket",
   bucketName        |-> name,
   versioned         |-> TRUE,
   removalPolicy     |-> RemovalPolicyOf(autoDeleteObjects),
   autoDeleteObjects |-> autoDeleteObjects,
   blockPublicAccess |-> BLOCK_ALL,
   encryption        |-> "S3_MANAGED"]

\* a variant of DeclareBuckets that declares the output bucket only when
\* auto-deletion is off
DeclareBuckets_OutputOnlyWhenRetained ==
  /\ pc = "buckets"
  /\ resources' =
       IF config.autoDeleteObjects
       THEN resources
              @@ ("InputBucket" :>
                    Bucket(RoleName(config.prefix, input, stackName), TRUE))
       ELSE resources
              @@ ("InputBucket" :>
                    Bucket(RoleName(config.prefix, input, stackName), FALSE))
              @@ ("OutputBucket" :>
                    Bucket(RoleName(config.prefix, output, stackName), FALSE))
  /\ pc' = "queues"
  /\ UNCHANGED <<env, stackName, error, config, grants, consumerPolicy, outputs>>

\* S3 BUCKETS
DeclareBuckets ==
  /\ pc = "buckets"
  /\ resources' = resources
       @@ ("InputBucket" :>
             Bucket(RoleName(config.prefix, input, stackName), config.autoDeleteObjects))
       @@ ("OutputBucket" :>
             Bucket(RoleName(config.prefix, output, stackName), config.autoDeleteObjects))
  /\ pc' = "queues"
  /\ UNCHANGED <<env, stackName, error, config, grants, consumerPolicy, outputs>>

Queue(name, visibility) ==
  [type              |-> "AWS::SQS::Queue",
   queueName         |-> name,
   visibilityTimeout |-> visibility,
   retentionDays     |-> RetentionDays]

\* a variant of InputVisibility that leaves out the factor
InputVisibility_NoFactor(timeout) == timeout

InputVisibility(timeout) == Times(timeout, VisibilityFactor)

\* SQS QUEUES
DeclareQueues ==
  /\ pc = "queues"
  /\ DurationAccepts(InputVisibility(config.timeout))
  /\ resources' = resources
       @@ ("InputQueue" :>
             Queue(RoleName(config.prefix, input, stackName),
                   InputVisibility(config.timeout)))
       @@ ("OutputQueue" :>
             Queue(RoleName(config.prefix, output, stackName),
                   Num(OutputVisibilitySeconds)))
  /\ pc' = "function"
  /\ UNCHANGED <<env, stackName, error, config, grants, consumerPolicy, outputs>>

\* SQS QUEUES with a negative timeout: Duration.seconds throws while the
\* input queue's properties are built, so neither queue is declared
NegativeDuration ==
  /\ pc = "queues"
  /\ ~DurationAccepts(InputVisibility(config.timeout))
  /\ error' = "Duration amounts cannot be negative"
  /\ pc' = "failed"
  /\ UNCHANGED <<env, stackName, config, resources, grants, consumerPolicy, outputs>>

\* a variant of AgentFunction that hands the function the input queue's URL
AgentFunction_InputQueueUrl(cfg, stack) ==
  [type         |-> "AWS::Lambda::Function",
   functionName |-> toLowerCase(cfg.prefix \o <<"-">> \o stack),
   code         |-> [repositoryName |-> cfg.repoName, tagOrDigest |-> cfg.imageTag],
   memorySize   |-> cfg.memorySize,
   timeout      |-> cfg.timeout,
   environment  |-> [INPUT_BUCKET         |-> Attr("InputBucket", "bucketName"),
                     OUTPUT_BUCKET        |-> Attr("OutputBucket", "bucketName"),
                     OUTPUT_SQS_QUEUE_URL |-> Attr("InputQueue", "queueUrl")]]

\* the properties of the DockerImageFunction 'AgentFunction'
AgentFunction(cfg, stack) ==
  [type         |-> "AWS::Lambda::Function",
   functionName |-> FunctionName(cfg.prefix, stack),
   code         |-> [repositoryName |-> cfg.repoName, tagOrDigest |-> cfg.imageTag],
   memorySize   |-> cfg.memorySize,
   timeout      |-> cfg.timeout,
   environment  |-> [INPUT_BUCKET         |-> Attr("InputBucket", "bucketName"),
                     OUTPUT_BUCKET        |-> Attr("OutputBucket", "bucketName"),
                     OUTPUT_SQS_QUEUE_URL |-> Attr("OutputQueue", "queueUrl")]]

\* a variant of FunctionGrants that lets the function write the input bucket too
FunctionGrants_ReadWriteInput ==
  { [grantee |-> "AgentFunction", grant |-> "Read",         on |-> "InputBucket"],
    [grantee |-> "AgentFunction", grant |-> "Write",        on |-> "InputBucket"],
    [grantee |-> "AgentFunction", grant |-> "Write",        on |-> "OutputBucket"],
    [grantee |-> "AgentFunction", grant |-> "SendMessages", on |-> "OutputQueue"] }

\* inputBucket.grantRead(fn); outputBucket.grantWrite(fn); outputQueue.grantSendMessages(fn)
FunctionGrants ==
  { [grantee |-> "AgentFunction", grant |-> "Read",         on |-> "InputBucket"],
    [grantee |-> "AgentFunction", grant |-> "Write",        on |-> "OutputBucket"],
    [grantee |-> "AgentFunction", grant |-> "SendMessages", on |-> "OutputQueue"] }

\* fn.addEventSource(new SqsEventSource(inputQueue, { batchSize: 1 }))
EventSource ==
  [type      |-> "AWS::Lambda::EventSourceMapping",
   queue     |-> "InputQueue",
   function  |-> "AgentFunction",
   batchSize |-> BatchSize]

\* LAMBDA FUNCTION: the function, its grants and its trigger
DeclareFunction ==
  /\ pc = "function"
  /\ resources' = resources
       @@ ("AgentFunction" :> AgentFunction(config, stackName))
       @@ ("SqsEventSource" :> EventSource)
  /\ grants' = grants \cup FunctionGrants
  /\ pc' = "policy"
  /\ UNCHANGED <<env, stackName, error, config, consumerPolicy, outputs>>

Allow(actions, on) == [effect |-> "Allow", actions |-> actions, resources |-> on]

\* a variant of ConsumerStatements whose first statement names the output bucket
ConsumerStatements_PutOnOutput ==
  << Allow(<<"s3:PutObject">>, <<AttrThen("OutputBucket", "bucketArn", <<"/","*">>)>>),
     Allow(<<"sqs:SendMessage">>, <<Attr("InputQueue", "queueArn")>>),
     Allow(<<"s3:GetObject">>, <<AttrThen("OutputBucket", "bucketArn", <<"/","*">>)>>),
     Allow(<<"s3:ListBucket">>, <<Attr("OutputBucket", "bucketArn")>>),
     Allow(<<"sqs:ReceiveMessage", "sqs:DeleteMessage", "sqs:GetQueueAttributes">>,
           <<Attr("OutputQueue", "queueArn")>>) >>

\* the statements of the consumer policy document, in the source's order
ConsumerStatements ==
  << Allow(<<"s3:PutObject">>, <<AttrThen("InputBucket", "bucketArn", <<"/","*">>)>>),
     Allow(<<"sqs:SendMessage">>, <<Attr("InputQueue", "queueArn")>>),
     Allow(<<"s3:GetObject">>, <<AttrThen("OutputBucket", "bucketArn", <<"/","*">>)>>),
     Allow(<<"s3:ListBucket">>, <<Attr("OutputBucket", "bucketArn")>>),
     Allow(<<"sqs:ReceiveMessage", "sqs:DeleteMessage", "sqs:GetQueueAttributes">>,
           <<Attr("OutputQueue", "queueArn")>>) >>

\* CONSUMER IAM POLICY
BuildConsumerPolicy ==
  /\ pc = "policy"
  /\ consumerPolicy' = ConsumerStatements
  /\ pc' = "outputs"
  /\ UNCHANGED <<env, stackName, error, config, resources, grants, outputs>>

\* PolicyDocument.toJSON of aws-cdk-lib: Version and one Statement entry per
\* statement; a one-element Action or Resource list is written as its element
OneOrMany(list) == IF Len(list) = 1 THEN list[1] ELSE list

StatementJson(st) ==
  [Action |-> OneOrMany(st.actions), Effect |-> st.effect,
   Resource |-> OneOrMany(st.resources)]

toJSON(policy) ==
  [Statement |-> [i \in 1..Len(policy) |-> StatementJson(policy[i])],
   Version   |-> "2012-10-17"]

\* JSON.stringify: the output holds the text of the document, not the document
stringify(doc) == [jsonText |-> doc]

\* a variant of StackOutputs whose outputQueueUrl is the input queue's
StackOutputs_InputQueueTwice(policy) ==
  [inputBucketName            |-> Attr("InputBucket", "bucketName"),
   inputQueueUrl              |-> Attr("InputQueue", "queueUrl"),
   outputBucketName           |-> Attr("OutputBucket", "bucketName"),
   outputQueueUrl             |-> Attr("InputQueue", "queueUrl"),
   lambdaFunctionName         |-> Attr("AgentFunction", "functionName"),
   awsRegion                  |-> Attr("Stack", "region"),
   iamPolicyClaudeAgentClient |-> stringify(toJSON(policy))]

\* the seven CfnOutput declarations
StackOutputs(policy) ==
  [inputBucketName            |-> Attr("InputBucket", "bucketName"),
   inputQueueUrl              |-> Attr("InputQueue", "queueUrl"),
   outputBucketName           |-> Attr("OutputBucket", "bucketName"),
   outputQueueUrl             |-> Attr("OutputQueue", "queueUrl"),
   lambdaFunctionName         |-> Attr("AgentFunction", "functionName"),
   awsRegion                  |-> Attr("Stack", "region"),
   iamPolicyClaudeAgentClient |-> stringify(toJSON(policy))]

\* OUTPUTS
DeclareOutputs ==
  /\ pc = "outputs"
  /\ outputs' = StackOutputs(consumerPolicy)
  /\ pc' = "done"
  /\ UNCHANGED <<env, stackName, error, config, resources, grants, consumerPolicy>>

Next ==
  \/ ReadConfig
  \/ MissingImageUri
  \/ DeclareBuckets
  \/ DeclareQueues
  \/ NegativeDuration
  \/ DeclareFunction
  \/ BuildConsumerPolicy
  \/ DeclareOutputs

Spec == Init /\ [][Next]_vars

\* The constructor run on every image reference up to MaxUriLen characters,
\* the other variables unset but for a timeout that is unset or negative.
UriChars == {"r", "a", "/", ":"}

AllImageUriValues == StringsUpTo(UriChars, MaxUriLen)

InitAllImageUris ==
  /\ \E i \in AllImageUriValues, t \in {Undefined, <<"-","3">>} :
       env = [namePrefix |-> Undefined, imageUri |-> i, memorySize |-> Undefined,
              timeout |-> t, autoDeleteObjects |-> Undefined,
              anthropicApiKey |-> Undefined]
  /\ stackName = <<"T","s">>
  /\ pc = "config"
  /\ error = "none"
  /\ config = EmptyMap
  /\ resources = EmptyMap
  /\ grants = {}
  /\ consumerPolicy = <<>>
  /\ outputs = EmptyMap

SpecAllImageUris == InitAllImageUris /\ [][Next]_vars

----------------------------------------------------------------------------
(* Vocabulary of the properties.                                           *)

Declared(id) == id \in DOMAIN resources
OfType(t) == { id \in DOMAIN resources : resources[id].type = t }
NothingDeclared ==
  /\ resources = EmptyMap
  /\ grants = {}
  /\ consumerPolicy = <<>>
  /\ outputs = EmptyMap

\* the value of a string of decimal digits, digit by digit from the left
DigitOf == ("0" :> 0) @@ ("1" :> 1) @@ ("2" :> 2) @@ ("3" :> 3) @@ ("4" :> 4)
           @@ ("5" :> 5) @@ ("6" :> 6) @@ ("7" :> 7) @@ ("8" :> 8) @@ ("9" :> 9)
IsNumeral(s) == s # Undefined /\ Len(s) > 0 /\ \A i \in 1..Len(s) : s[i] \in DOMAIN DigitOf
RECURSIVE Pow10(_)
Pow10(k) == IF k = 0 THEN 1 ELSE 10 * Pow10(k - 1)
RECURSIVE NumeralSum(_, _)
NumeralSum(s, i) ==
  IF i > Len(s) THEN 0 ELSE DigitOf[s[i]] * Pow10(Len(s) - i) + NumeralSum(s, i + 1)
NumeralValue(s) == NumeralSum(s, 1)

Unset(v) == v = Undefined \/ v = <<>>

----------------------------------------------------------------------------
(* C1 *)

\* C1: when imageUri is unset or empty the constructor fails with the message
\* 'imageUri environment variable is required' before anything is declared
\* (no bucket, queue, function, grant, policy or output exists in the failed
\* state), and the constructor's own message is raised in no other case: every
\* other failure carries the message of the library call that refused its
\* argument.
C1_MissingImageUriHalts ==
  /\ (pc # "config" /\ Unset(env.imageUri)) =>
        /\ pc = "failed"
        /\ error = "imageUri environment variable is required"
        /\ NothingDeclared
  /\ (error = "imageUri environment variable is required") =>
        Unset(env.imageUri)
  /\ (pc = "failed" /\ ~Unset(env.imageUri)) =>
        error = "Duration amounts cannot be negative"
  /\ (pc # "failed") => error = "none"

\* C1 witness: the constructor has run with an empty imageUri and has failed
C1_Witness ==
  /\ pc = "failed"
  /\ env.imageUri = <<>>
  /\ error = "imageUri environment variable is required"
  /\ NothingDeclared

----------------------------------------------------------------------------
(* C2 *)

\* C2: once the input queue and the function are both declared, the queue's
\* visibility timeout is six times the function's timeout T (both are NaN when
\* the configured text is no number), so it is never smaller than T; with the
\* timeout unset, T is 900 and the visibility timeout 5400.
C2_VisibilityIsSixTimesTimeout ==
  (Declared("InputQueue") /\ Declared("AgentFunction")) =>
    LET T == resources["AgentFunction"].timeout
        V == resources["InputQueue"].visibilityTimeout
    IN  /\ T.nan => V.nan
        /\ ~T.nan => (~V.nan /\ V.n = 6 * T.n /\ V.n >= T.n)
        /\ Unset(env.timeout) => (T = Num(900) /\ V = Num(5400))
        /\ IsNumeral(env.timeout) => T = Num(NumeralValue(env.timeout))

\* C2 witness: a stack built with timeout '30' has a 180 s visibility timeout
C2_Witness ==
  /\ pc = "done"
  /\ env.timeout = <<"3","0">>
  /\ resources["AgentFunction"].timeout = Num(30)
  /\ resources["InputQueue"].visibilityTimeout = Num(180)

----------------------------------------------------------------------------
(* C3 *)

\* C3: the function is declared with memory 1024 and timeout 900 when the
\* variable is unset (or empty), and with the number written in the variable
\* when it holds a decimal numeral; each parameter is decided by its own
\* variable alone.
C3_DefaultsAndOverrides ==
  Declared("AgentFunction") =>
    LET fn == resources["AgentFunction"]
    IN  /\ Unset(env.memorySize) => fn.memorySize = Num(1024)
        /\ Unset(env.timeout) => fn.timeout = Num(900)
        /\ IsNumeral(env.memorySize) => fn.memorySize = Num(NumeralValue(env.memorySize))
        /\ IsNumeral(env.timeout) => fn.timeout = Num(NumeralValue(env.timeout))

\* C3 witness: memorySize set to '3' with timeout unset gives memory 3 and
\* the default timeout
C3_Witness ==
  /\ pc = "done"
  /\ env.memorySize = <<"3">>
  /\ env.timeout = Undefined
  /\ resources["AgentFunction"].memorySize = Num(3)
  /\ resources["AgentFunction"].timeout = Num(900)

----------------------------------------------------------------------------
(* C4 *)

\* the (action, resource) pairs a policy document allows
AllowedPairs(policy) ==
  UNION { { <<policy[i].actions[a], policy[i].resources[r]>> :
              a \in 1..Len(policy[i].actions), r \in 1..Len(policy[i].resources) } :
          i \in { j \in 1..Len(policy) : policy[j].effect = "Allow" } }

ObjectsOf(bucket) == [construct |-> bucket, attr |-> "bucketArn", suffix |-> <<"/","*">>]
BucketItself(bucket) == [construct |-> bucket, attr |-> "bucketArn", suffix |-> <<>>]
QueueItself(queue) == [construct |-> queue, attr |-> "queueArn", suffix |-> <<>>]

ExpectedConsumerPairs ==
  { <<"s3:PutObject", ObjectsOf("InputBucket")>>,
    <<"sqs:SendMessage", QueueItself("InputQueue")>>,
    <<"s3:GetObject", ObjectsOf("OutputBucket")>>,
    <<"s3:ListBucket", BucketItself("OutputBucket")>>,
    <<"sqs:ReceiveMessage", QueueItself("OutputQueue")>>,
    <<"sqs:DeleteMessage", QueueItself("OutputQueue")>>,
    <<"sqs:GetQueueAttributes", QueueItself("OutputQueue")>> }

\* C4: once built, the consumer policy allows exactly seven (action, resource)
\* pairs and denies nothing: s3:PutObject on the input bucket's objects,
\* sqs:SendMessage on the input queue, s3:GetObject on the output bucket's
\* objects and s3:ListBucket on the output bucket, and sqs:ReceiveMessage,
\* sqs:DeleteMessage and sqs:GetQueueAttributes on the output queue. So the
\* input bucket is named only with s3:PutObject, the input queue only with
\* sqs:SendMessage, and neither s3:PutObject nor sqs:SendMessage names an
\* output resource.
C4_ConsumerPolicyExact ==
  (pc \in {"outputs", "done"}) =>
    /\ AllowedPairs(consumerPolicy) = ExpectedConsumerPairs
    /\ \A i \in 1..Len(consumerPolicy) : consumerPolicy[i].effect = "Allow"
    /\ \A pr \in AllowedPairs(consumerPolicy) :
         /\ pr[2].construct = "InputBucket" => pr[1] = "s3:PutObject"
         /\ pr[2].construct = "InputQueue" => pr[1] = "sqs:SendMessage"
         /\ pr[2].construct = "OutputBucket" => pr[1] \in {"s3:GetObject", "s3:ListBucket"}
         /\ pr[2].construct = "OutputQueue" => pr[1] \notin {"sqs:SendMessage"}
         /\ pr[2].construct \in {"InputBucket", "InputQueue", "OutputBucket", "OutputQueue"}

\* C4 witness: a finished stack whose policy lets the client put objects
\* into the input bucket
C4_Witness ==
  /\ pc = "done"
  /\ Len(consumerPolicy) = 5
  /\ <<"s3:PutObject", ObjectsOf("InputBucket")>> \in AllowedPairs(consumerPolicy)

----------------------------------------------------------------------------
(* C5 *)

----------------------------------------------------------------------------
(* C6 *)

UpperCaseLetters == { Uppers[i] : i \in 1..Len(Uppers) }
NoUpperCase(s) == \A i \in 1..Len(s) : s[i] \notin UpperCaseLetters

\* name is raw with every upper-case letter replaced by its lower-case letter
LoweredFrom(name, raw) ==
  /\ Len(name) = Len(raw)
  /\ \A i \in 1..Len(raw) : name[i] = LowerChar(raw[i])

\* the prefix in force: namePrefix, or 'agent' when it is unset or empty
PrefixInForce ==
  IF Unset(env.namePrefix) THEN <<"a","g","e","n","t">> ELSE env.namePrefix

InputRaw == PrefixInForce \o <<"-","i","n","p","u","t","-">> \o stackName
OutputRaw == PrefixInForce \o <<"-","o","u","t","p","u","t","-">> \o stackName
FunctionRaw == PrefixInForce \o <<"-">> \o stackName

\* C6: every declared name is the lower-cased '<prefix>-input-<stack>' (input
\* bucket and input queue), '<prefix>-output-<stack>' (output bucket and
\* output queue) or '<prefix>-<stack>' (function), with prefix 'agent' when
\* namePrefix is unset; no name holds an upper-case letter, and the input and
\* output resource of one kind have different names.
C6_ResourceNames ==
  /\ Declared("InputBucket") =>
       /\ LoweredFrom(resources["InputBucket"].bucketName, InputRaw)
       /\ NoUpperCase(resources["InputBucket"].bucketName)
  /\ Declared("OutputBucket") =>
       /\ LoweredFrom(resources["OutputBucket"].bucketName, OutputRaw)
       /\ NoUpperCase(resources["OutputBucket"].bucketName)
  /\ Declared("InputQueue") =>
       /\ LoweredFrom(resources["InputQueue"].queueName, InputRaw)
       /\ NoUpperCase(resources["InputQueue"].queueName)
  /\ Declared("OutputQueue") =>
       /\ LoweredFrom(resources["OutputQueue"].queueName, OutputRaw)
       /\ NoUpperCase(resources["OutputQueue"].queueName)
  /\ Declared("AgentFunction") =>
       /\ LoweredFrom(resources["AgentFunction"].functionName, FunctionRaw)
       /\ NoUpperCase(resources["AgentFunction"].functionName)
  /\ (Declared("InputBucket") /\ Declared("OutputBucket")) =>
       resources["InputBucket"].bucketName # resources["OutputBucket"].bucketName
  /\ (Declared("InputQueue") /\ Declared("OutputQueue")) =>
       resources["InputQueue"].queueName # resources["OutputQueue"].queueName

\* C6 witness: prefix 'My' and stack 'Ts' give 'my-input-ts', 'my-output-ts'
\* and 'my-ts'
C6_Witness ==
  /\ pc = "done"
  /\ env.namePrefix = <<"M","y">>
  /\ stackName = <<"T","s">>
  /\ resources["InputBucket"].bucketName = <<"m","y","-","i","n","p","u","t","-","t","s">>
  /\ resources["InputQueue"].queueName = <<"m","y","-","i","n","p","u","t","-","t","s">>
  /\ resources["OutputBucket"].bucketName = <<"m","y","-","o","u","t","p","u","t","-","t","s">>
  /\ resources["OutputQueue"].queueName = <<"m","y","-","o","u","t","p","u","t","-","t","s">>
  /\ resources["AgentFunction"].functionName = <<"m","y","-","t","s">>

----------------------------------------------------------------------------
(* C7 *)

Buckets == OfType("AWS::S3::Bucket")

\* C7: every declared bucket is versioned, encrypted with S3-managed keys and
\* has all four public-access blocks on, whatever the environment holds; at the
\* end both the input and the output bucket are such buckets.
C7_BucketsVersionedEncryptedPrivate ==
  /\ \A b \in Buckets :
       /\ resources[b].versioned = TRUE
       /\ resources[b].encryption = "S3_MANAGED"
       /\ resources[b].blockPublicAccess.blockPublicAcls = TRUE
       /\ resources[b].blockPublicAccess.blockPublicPolicy = TRUE
       /\ resources[b].blockPublicAccess.ignorePublicAcls = TRUE
       /\ resources[b].blockPublicAccess.restrictPublicBuckets = TRUE
  /\ (pc = "done") => Buckets = {"InputBucket", "OutputBucket"}

\* C7 witness: both buckets declared, with auto-deletion requested
C7_Witness ==
  /\ Buckets = {"InputBucket", "OutputBucket"}
  /\ env.autoDeleteObjects = <<"t","r","u","e">>
  /\ resources["InputBucket"].versioned
  /\ resources["OutputBucket"].versioned

----------------------------------------------------------------------------
(* C8 *)

\* the DeletionPolicy the template gets for a removal policy
DeletionPolicy(removalPolicy) == IF removalPolicy = "DESTROY" THEN "Delete" ELSE "Retain"

\* C8: both buckets have deletion policy Delete and auto-deletion on when
\* autoDeleteObjects is exactly 'true', and deletion policy Retain and
\* auto-deletion off for every other value and when it is unset; so the two
\* buckets agree, and no bucket with Retain has auto-deletion on.
C8_DeletionFollowsAutoDelete ==
  /\ \A b \in Buckets :
       /\ resources[b].removalPolicy \in {"DESTROY", "RETAIN"}
       /\ (env.autoDeleteObjects = <<"t","r","u","e">>) =>
            /\ DeletionPolicy(resources[b].removalPolicy) = "Delete"
            /\ resources[b].autoDeleteObjects = TRUE
       /\ (env.autoDeleteObjects # <<"t","r","u","e">>) =>
            /\ DeletionPolicy(resources[b].removalPolicy) = "Retain"
            /\ resources[b].autoDeleteObjects = FALSE
       /\ (DeletionPolicy(resources[b].removalPolicy) = "Retain") =>
            resources[b].autoDeleteObjects = FALSE
  /\ \A b1 \in Buckets, b2 \in Buckets :
       resources[b1].removalPolicy = resources[b2].removalPolicy

\* C8 witness: autoDeleteObjects 'TRUE' is not 'true', so both buckets are retained
C8_Witness ==
  /\ Buckets = {"InputBucket", "OutputBucket"}
  /\ env.autoDeleteObjects = <<"T","R","U","E">>
  /\ resources["InputBucket"].removalPolicy = "RETAIN"
  /\ resources["OutputBucket"].removalPolicy = "RETAIN"
  /\ ~resources["InputBucket"].autoDeleteObjects

----------------------------------------------------------------------------
(* C9 *)

OutputNames ==
  { "inputBucketName", "inputQueueUrl", "outputBucketName", "outputQueueUrl",
    "lambdaFunctionName", "awsRegion", "iamPolicyClaudeAgentClient" }

\* value is the attribute attr, and nothing more, of the declared construct id
\* whose type is t
RefersTo(value, id, attr, t) ==
  /\ value = [construct |-> id, attr |-> attr, suffix |-> <<>>]
  /\ Declared(id)
  /\ resources[id].type = t

\* the JSON document of the consumer policy as the source's five statements give it
ExpectedPolicyJson ==
  [Version   |-> "2012-10-17",
   Statement |->
     << [Effect |-> "Allow", Action |-> "s3:PutObject",
         Resource |-> ObjectsOf("InputBucket")],
        [Effect |-> "Allow", Action |-> "sqs:SendMessage",
         Resource |-> QueueItself("InputQueue")],
        [Effect |-> "Allow", Action |-> "s3:GetObject",
         Resource |-> ObjectsOf("OutputBucket")],
        [Effect |-> "Allow", Action |-> "s3:ListBucket",
         Resource |-> BucketItself("OutputBucket")],
        [Effect |-> "Allow",
         Action |-> <<"sqs:ReceiveMessage", "sqs:DeleteMessage", "sqs:GetQueueAttributes">>,
         Resource |-> QueueItself("OutputQueue")] >>]

\* C9: a finished construction exposes exactly the seven outputs, and each
\* holds the identifier of the matching declared resource: the input bucket's
\* name, the input queue's URL, the output bucket's name, the output queue's
\* URL, the function's name, the stack's region, and the JSON text of the
\* consumer policy that was built (one Statement per statement of the policy).
C9_OutputsMatchResources ==
  (pc = "done") =>
    /\ DOMAIN outputs = OutputNames
    /\ RefersTo(outputs["inputBucketName"], "InputBucket", "bucketName", "AWS::S3::Bucket")
    /\ RefersTo(outputs["inputQueueUrl"], "InputQueue", "queueUrl", "AWS::SQS::Queue")
    /\ RefersTo(outputs["outputBucketName"], "OutputBucket", "bucketName", "AWS::S3::Bucket")
    /\ RefersTo(outputs["outputQueueUrl"], "OutputQueue", "queueUrl", "AWS::SQS::Queue")
    /\ RefersTo(outputs["lambdaFunctionName"], "AgentFunction", "functionName",
                "AWS::Lambda::Function")
    /\ outputs["awsRegion"] = [construct |-> "Stack", attr |-> "region", suffix |-> <<>>]
    /\ DOMAIN outputs["iamPolicyClaudeAgentClient"] = {"jsonText"}
    /\ outputs["iamPolicyClaudeAgentClient"].jsonText = ExpectedPolicyJson
    /\ Len(outputs["iamPolicyClaudeAgentClient"].jsonText.Statement) = Len(consumerPolicy)
    /\ \A i \in 1..Len(consumerPolicy) :
         outputs["iamPolicyClaudeAgentClient"].jsonText.Statement[i].Effect
           = consumerPolicy[i].effect

\* C9 witness: a finished stack whose queue outputs name the two different queues
C9_Witness ==
  /\ pc = "done"
  /\ DOMAIN outputs = OutputNames
  /\ outputs["inputQueueUrl"].construct = "InputQueue"
  /\ outputs["outputQueueUrl"].construct = "OutputQueue"
  /\ Len(outputs["iamPolicyClaudeAgentClient"].jsonText.Statement) = 5

----------------------------------------------------------------------------
(* C10 *)

\* C10: the declared function's environment holds INPUT_BUCKET, OUTPUT_BUCKET
\* and OUTPUT_SQS_QUEUE_URL, which are the input bucket's name, the output
\* bucket's name and the output queue's URL; once the outputs exist they are
\* the values of inputBucketName, outputBucketName and outputQueueUrl.
C10_FunctionEnvironment ==
  Declared("AgentFunction") =>
    LET e == resources["AgentFunction"].environment
    IN  /\ {"INPUT_BUCKET", "OUTPUT_BUCKET", "OUTPUT_SQS_QUEUE_URL"} \subseteq DOMAIN e
        /\ RefersTo(e.INPUT_BUCKET, "InputBucket", "bucketName", "AWS::S3::Bucket")
        /\ RefersTo(e.OUTPUT_BUCKET, "OutputBucket", "bucketName", "AWS::S3::Bucket")
        /\ RefersTo(e.OUTPUT_SQS_QUEUE_URL, "OutputQueue", "queueUrl", "AWS::SQS::Queue")
        /\ e.INPUT_BUCKET # e.OUTPUT_BUCKET
        /\ (pc = "done") =>
             /\ e.INPUT_BUCKET = outputs["inputBucketName"]
             /\ e.OUTPUT_BUCKET = outputs["outputBucketName"]
             /\ e.OUTPUT_SQS_QUEUE_URL = outputs["outputQueueUrl"]
             /\ e.OUTPUT_SQS_QUEUE_URL # outputs["inputQueueUrl"]

\* C10 witness: a finished stack whose function is handed the output queue's URL
C10_Witness ==
  /\ pc = "done"
  /\ resources["AgentFunction"].environment.OUTPUT_SQS_QUEUE_URL.construct = "OutputQueue"
  /\ resources["AgentFunction"].environment.INPUT_BUCKET = outputs["inputBucketName"]

----------------------------------------------------------------------------
(* C11 *)

EventSourceMappings == OfType("AWS::Lambda::EventSourceMapping")

\* the (grant, resource) pairs given to a grantee
GrantsTo(grantee) == { <<g.grant, g.on>> : g \in { h \in grants : h.grantee = grantee } }

----------------------------------------------------------------------------
(* C12 *)

\* the image reference is set and has no '/' between a registry and a repository
NoRegistrySeparator(uri) ==
  /\ ~Unset(uri)
  /\ \A i \in 1..Len(uri) : uri[i] # "/"

\* C12 as stated: an image reference that cannot be split into registry and
\* repository (it has no '/') never yields a finished construction.
C12_UnparseableImageUriFails ==
  NoRegistrySeparator(env.imageUri) => pc # "done"

\* C12 as amended: an unset or empty image reference fails the construction
\* before anything is declared, and that is the only check made on it. A
\* reference that is present is never refused: a failure with a present
\* reference is the refusal of a negative timeout, and a reference with no '/'
\* gives the function an empty repository name and, having no ':' left after
\* the registry part is dropped, the tag 'latest'.
C12_PresentImageUriIsNotValidated ==
  /\ (pc # "config" /\ Unset(env.imageUri)) =>
        (pc = "failed" /\ resources = EmptyMap)
  /\ (pc = "failed" /\ ~Unset(env.imageUri)) =>
        /\ error # "imageUri environment variable is required"
        /\ ~config.timeout.nan
        /\ config.timeout.n < 0
  /\ (Declared("AgentFunction") /\ NoRegistrySeparator(env.imageUri)) =>
        /\ resources["AgentFunction"].code.repositoryName = <<>>
        /\ resources["AgentFunction"].code.tagOrDigest = <<"l","a","t","e","s","t">>

\* C12 witness: the reference 'a:t' has no '/', and the stack is built whole
C12_Witness ==
  /\ pc = "done"
  /\ env.imageUri = <<"a",":","t">>
  /\ NoRegistrySeparator(env.imageUri)
  /\ resources["AgentFunction"].code.repositoryName = <<>>
  /\ Cardinality(DOMAIN resources) = 6
  /\ DOMAIN outputs = OutputNames

----------------------------------------------------------------------------
(* C13 *)

\* C13 as documented: anthropicApiKey is required, so a construction without
\* it does not finish; a finished construction gives the function
\* ANTHROPIC_API_KEY_SECRET_ARN next to INPUT_BUCKET, OUTPUT_BUCKET and
\* OUTPUT_SQS_QUEUE_URL, and exposes anthropicApiKeySecretArn next to the
\* other seven outputs.
C13_AnthropicApiKeyWired ==
  /\ (pc = "done") => ~Unset(env.anthropicApiKey)
  /\ (pc = "done") =>
       /\ { "INPUT_BUCKET", "OUTPUT_BUCKET", "OUTPUT_SQS_QUEUE_URL",
            "ANTHROPIC_API_KEY_SECRET_ARN" }
            \subseteq DOMAIN resources["AgentFunction"].environment
       /\ OutputNames \cup {"anthropicApiKeySecretArn"} \subseteq DOMAIN outputs

----------------------------------------------------------------------------
(* C14 *)

\* the position of the first c in s, 0 when s holds no c
FirstIndex(s, c) ==
  IF \E i \in 1..Len(s) : s[i] = c
  THEN CHOOSE i \in 1..Len(s) : s[i] = c /\ \A k \in 1..(i-1) : s[k] # c
  ELSE 0

\* the text of s before its first c (all of s when it holds no c)
Before(s, c) == IF FirstIndex(s, c) = 0 THEN s ELSE SubSeq(s, 1, FirstIndex(s, c) - 1)
\* the text of s after its first c
After(s, c) == SubSeq(s, FirstIndex(s, c) + 1, Len(s))

\* C14: for an image reference that holds a '/', the function's image has as
\* repository name the text after the first '/' up to the first ':' that
\* follows (further '/' are kept), and as tag the text after that ':' up to
\* the next ':', or 'latest' when no ':' follows the first '/'. The same
\* repository name and tag come out of the reference with its registry part
\* replaced by another one, 'a:r'.
C14_ImageReferenceParsing ==
  (Declared("AgentFunction") /\ FirstIndex(env.imageUri, "/") > 0) =>
    LET rest == After(env.imageUri, "/")
        code == resources["AgentFunction"].code
    IN  /\ code.repositoryName = Before(rest, ":")
        /\ FirstIndex(rest, ":") = 0 => code.tagOrDigest = <<"l","a","t","e","s","t">>
        /\ FirstIndex(rest, ":") > 0 => code.tagOrDigest = Before(After(rest, ":"), ":")
        /\ code.repositoryName = RepoName(<<"a",":","r","/">> \o rest)
        /\ code.tagOrDigest = ImageTag(<<"a",":","r","/">> \o rest)

\* C14 witness: 'r/a:r:' gives repository 'a' and tag 'r'
C14_Witness ==
  /\ pc = "done"
  /\ env.imageUri = <<"r","/","a",":","r",":">>
  /\ resources["AgentFunction"].code.repositoryName = <<"a">>
  /\ resources["AgentFunction"].code.tagOrDigest = <<"r">>

====
